---------------------------- MODULE Spec2Model ----------------------------
(***************************************************************************)
(* Model of bot/aw_images.py: the image-page cleanup bot of the Animal     *)
(* Well Wiki.  Python strings are sequences of one-character strings, so   *)
(* that find, strip, replace, the two regular expressions, dedent and the  *)
(* section/template extraction are computed character by character.        *)
(***************************************************************************)
EXTENDS Integers, Sequences, FiniteSets, TLC

(***************************************************************************)
(* Bounds of the model.                                                    *)
(***************************************************************************)
\* longest caption source string enumerated by SpecCaption
MaxLen == 6
\* config.max_retries: the configured retry count of the save loop
MaxRetries == 1
\* how many times the script is started on the same wiki
MaxRuns == 2

(***************************************************************************)
(* Python str operations.                                                  *)
(***************************************************************************)
\* str.strip() removes these
IsWS(c) == c \in {" ", "\n", "\t"}

\* s[a:b] for 0 <= a <= b <= len(s)
Slice(s, a, b) == SubSeq(s, a + 1, b)

\* s.find(sub): index of the first occurrence, -1 when there is none
Find(s, sub) ==
    LET hits == {i \in 1..(Len(s) - Len(sub) + 1) :
                     SubSeq(s, i, i + Len(sub) - 1) = sub}
    IN  IF hits = {} THEN -1
        ELSE (CHOOSE i \in hits : \A j \in hits : i <= j) - 1

\* s.rfind(sub)
RFind(s, sub) ==
    LET hits == {i \in 1..(Len(s) - Len(sub) + 1) :
                     SubSeq(s, i, i + Len(sub) - 1) = sub}
    IN  IF hits = {} THEN -1
        ELSE (CHOOSE i \in hits : \A j \in hits : i >= j) - 1

\* sub in s
Contains(s, sub) == Find(s, sub) >= 0

StartsWith(s, sub) == Len(s) >= Len(sub) /\ SubSeq(s, 1, Len(sub)) = sub

EndsWith(s, sub) ==
    Len(s) >= Len(sub) /\ SubSeq(s, Len(s) - Len(sub) + 1, Len(s)) = sub

RECURSIVE LStrip(_)
LStrip(s) == IF s # <<>> /\ IsWS(Head(s)) THEN LStrip(Tail(s)) ELSE s

RECURSIVE RStrip(_)
RStrip(s) ==
    IF s # <<>> /\ IsWS(s[Len(s)]) THEN RStrip(SubSeq(s, 1, Len(s) - 1)) ELSE s

\* s.strip()
Strip(s) == RStrip(LStrip(s))

\* s.replace(c, '') for a one-character c
RemoveChar(s, c) == SelectSeq(s, LAMBDA x : x # c)

\* s.split(sep)
RECURSIVE Split(_, _)
Split(s, sep) ==
    LET i == Find(s, sep)
    IN  IF i < 0 THEN <<s>>
        ELSE <<Slice(s, 0, i)>> \o Split(Slice(s, i + Len(sep), Len(s)), sep)

\* sep.join(parts)
RECURSIVE Join(_, _)
Join(parts, sep) ==
    IF parts = <<>> THEN <<>>
    ELSE IF Len(parts) = 1 THEN parts[1]
    ELSE parts[1] \o sep \o Join(Tail(parts), sep)

LowerLetters == <<"a","b","c","d","e","f","g","h","i","j","k","l","m","n","o","p","q","r","s","t","u","v","w","x","y","z">>
UpperLetters == <<"A","B","C","D","E","F","G","H","I","J","K","L","M","N","O","P","Q","R","S","T","U","V","W","X","Y","Z">>

ToUpper(c) ==
    IF \E i \in DOMAIN LowerLetters : LowerLetters[i] = c
    THEN UpperLetters[CHOOSE i \in DOMAIN LowerLetters : LowerLetters[i] = c]
    ELSE c

ToLower(c) ==
    IF \E i \in DOMAIN UpperLetters : UpperLetters[i] = c
    THEN LowerLetters[CHOOSE i \in DOMAIN UpperLetters : UpperLetters[i] = c]
    ELSE c

\* s.capitalize(): first character upper case, the rest lower case
Capitalize(s) ==
    [i \in DOMAIN s |-> IF i = 1 THEN ToUpper(s[i]) ELSE ToLower(s[i])]

(***************************************************************************)
(* The two regular expressions.                                            *)
(***************************************************************************)
\* LOCATION_REGEX.sub(repl='', string=s) with '[lL]ocation([.]| of)?'
RECURSIVE LocationRegexSub(_)
LocationRegexSub(s) ==
    IF s = <<>> THEN <<>>
    ELSE IF StartsWith(s, <<"l","o","c","a","t","i","o","n">>) \/ StartsWith(s, <<"L","o","c","a","t","i","o","n">>)
    THEN LET rest == Slice(s, Len(<<"l","o","c","a","t","i","o","n">>), Len(s))
         IN  IF StartsWith(rest, <<".">>)
             THEN LocationRegexSub(Slice(rest, Len(<<".">>), Len(rest)))
             ELSE IF StartsWith(rest, <<" ","o","f">>)
             THEN LocationRegexSub(Slice(rest, Len(<<" ","o","f">>), Len(rest)))
             ELSE LocationRegexSub(rest)
    ELSE <<Head(s)>> \o LocationRegexSub(Tail(s))

Digits == {"0", "1", "2", "3", "4", "5", "6", "7", "8", "9"}

\* DIGITS_REGEX.sub('', s) with '[0-9]'
DigitsRegexSub(s) == SelectSeq(s, LAMBDA x : x \notin Digits)

(***************************************************************************)
(* Caption derivation, main() lines 217-245, one operator per step.        *)
(***************************************************************************)
\* a mutant of TruncateBrace: the guard i >= 0 instead of i > 0
TruncateBraceAtZero(s) ==
    LET i == Find(s, <<"{">>) IN IF i >= 0 THEN Slice(s, 0, i) ELSE s

\* i = summary.find('{'); if i > 0: summary = summary[0:i]
TruncateBrace(s) ==
    LET i == Find(s, <<"{">>) IN IF i > 0 THEN Slice(s, 0, i) ELSE s

\* i = summary.find(' in '); if i > 0: summary = summary[0:i]; then strip()
TruncateIn(s) ==
    LET i == Find(s, <<" ","i","n"," ">>) IN Strip(IF i > 0 THEN Slice(s, 0, i) ELSE s)

\* summary[-1] raises IndexError on the empty string
PeriodIndexError(s) == s = <<>>

\* if summary[-1] == '.': summary = summary[0:-1]
StripPeriod(s) ==
    IF s[Len(s)] = "." THEN Slice(s, 0, Len(s) - 1) ELSE s

\* lines 231-245, the rewritten summary (the assignment to choice apart)
RewriteCaption(s, page_is_egg) ==
    LET s2 == IF Contains(s, <<"2">>) THEN RemoveChar(s, "2") ELSE s
    IN  IF Contains(s2, <<"o","c","a","t","i","o","n">>)
        THEN <<"t","h","e"," ","l","o","c","a","t","i","o","n"," ","o","f"," ","[","[">> \o Capitalize(Strip(LocationRegexSub(s2))) \o <<"]","]">>
        ELSE IF Contains(s2, <<"E","g","g">>)
        THEN IF page_is_egg THEN <<"{","{","E","g","g"," ","t","e","x","t","u","r","e","}","}">>
             ELSE DigitsRegexSub(<<"[","[">> \o s2 \o <<"]","]">>)
        ELSE s2

\* line 239-240: choice = 'y' is assigned only in the 'Egg' branch of an egg page
RewriteSetsChoice(s, page_is_egg) ==
    LET s2 == IF Contains(s, <<"2">>) THEN RemoveChar(s, "2") ELSE s
    IN  ~Contains(s2, <<"o","c","a","t","i","o","n">>) /\ Contains(s2, <<"E","g","g">>) /\ page_is_egg

(***************************************************************************)
(* The wiki-client library, as main() consumes it.                         *)
(***************************************************************************)
\* Python's None, distinct from every string of one-character strings
None == <<"None">>

\* s without its trailing spaces
RECURSIVE DropSpaces(_)
DropSpaces(u) ==
    IF u # <<>> /\ u[Len(u)] = " " THEN DropSpaces(SubSeq(u, 1, Len(u) - 1)) ELSE u

\* a heading line: '=' ... '=' with optional trailing spaces, at line start
IsHeading(line) ==
    LET h == DropSpaces(line)
    IN  Len(h) >= Len(<<"=","x","=">>) /\ h[1] = "=" /\ h[Len(h)] = "="

\* the text of lines a..b, each preceded by a newline
RECURSIVE LinesAfter(_, _, _)
LinesAfter(lines, a, b) ==
    IF a > b THEN <<>> ELSE <<"\n">> \o lines[a] \o LinesAfter(lines, a + 1, b)

\* the text of lines a..b, each followed by a newline
RECURSIVE LinesBefore(_, _, _)
LinesBefore(lines, a, b) ==
    IF a > b THEN <<>> ELSE lines[a] \o <<"\n">> \o LinesBefore(lines, a + 1, b)

\* length of s without its trailing run of whitespace and category links
RECURSIVE FooterStart(_)
FooterStart(s) ==
    IF s = <<>> THEN 0
    ELSE IF IsWS(s[Len(s)]) THEN FooterStart(SubSeq(s, 1, Len(s) - 1))
    ELSE IF EndsWith(s, <<"]","]">>)
    THEN LET o == RFind(s, <<"[","[">>)
         IN  IF o >= 0 /\ StartsWith(Slice(s, o, Len(s)), <<"[","[","C","a","t","e","g","o","r","y",":">>)
             THEN FooterStart(Slice(s, 0, o))
             ELSE Len(s)
    ELSE Len(s)

\* the index of the first heading line after line k, Len(lines) + 1 if none
NextHead(lines, k) ==
    LET heads == {m \in DOMAIN lines : m > k /\ IsHeading(lines[m])}
    IN  IF heads = {} THEN Len(lines) + 1
        ELSE CHOOSE m \in heads : \A j \in heads : m <= j

\* the sections from the heading at line k on: the heading line, and the
\* text from its end to the start of the next heading
RECURSIVE Sections(_, _)
Sections(lines, k) ==
    IF k > Len(lines) THEN <<>>
    ELSE LET n == NextHead(lines, k)
         IN  <<[title |-> lines[k],
                content |-> LinesAfter(lines, k + 1, n - 1)
                               \o (IF n <= Len(lines) THEN <<"\n">> ELSE <<>>)]>>
                \o Sections(lines, n)

\* the text before the first heading
HeaderOf(text, lines) ==
    IF NextHead(lines, 0) > Len(lines) THEN text
    ELSE LinesBefore(lines, 1, NextHead(lines, 0) - 1)

\* the trailing categories of the last section (of the header if there is
\* no section), without leading whitespace
FooterOf(last) == LStrip(Slice(last, FooterStart(last), Len(last)))

\* the footer is cut from the last section, or from the header
CutFooter(hdr, secs, ftr) ==
    [header |-> IF secs = <<>> THEN Slice(hdr, 0, Len(hdr) - Len(ftr)) ELSE hdr,
     body   |-> IF secs = <<>> THEN secs
                ELSE [secs EXCEPT ![Len(secs)].content =
                         Slice(@, 0, Len(@) - Len(ftr))],
     footer |-> ftr]

SplitFooter(hdr, secs) ==
    CutFooter(hdr, secs,
              FooterOf(IF secs = <<>> THEN hdr ELSE secs[Len(secs)].content))

SectionsOfLines(text, lines) ==
    SplitFooter(HeaderOf(text, lines), Sections(lines, NextHead(lines, 0)))

\* textlib.extract_sections(text, site): (header, body, footer)
ExtractSections(text) == SectionsOfLines(text, Split(text, <<"\n">>))

\* the template name after '{{': up to the first '|' or '}'
RECURSIVE NameUpTo(_)
NameUpTo(s) ==
    IF s = <<>> \/ Head(s) \in {"|", "}"} THEN <<>>
    ELSE <<Head(s)>> \o NameUpTo(Tail(s))

\* t[0].title() for a template: the namespace and the capitalised name
TemplateTitle(name) ==
    LET n == Strip(name)
    IN  <<"T","e","m","p","l","a","t","e",":">> \o [i \in DOMAIN n |-> IF i = 1 THEN ToUpper(n[i]) ELSE n[i]]

\* page.templatesWithParams(): the titles of the templates the text calls
RECURSIVE TemplateTitles(_)
TemplateTitles(text) ==
    LET i == Find(text, <<"{","{">>)
        rest == Slice(text, i + Len(<<"{","{">>), Len(text))
    IN  IF i < 0 THEN <<>>
        ELSE IF Contains(rest, <<"}","}">>)
        THEN <<TemplateTitle(NameUpTo(rest))>> \o TemplateTitles(rest)
        ELSE <<>>

\* page.get() raises IsRedirectPageError for a redirect page
IsRedirectPage(text) == StartsWith(text, <<"#","R","E","D","I","R","E","C","T">>)

(***************************************************************************)
(* textwrap.dedent                                                         *)
(***************************************************************************)
IsBlankLine(line) == \A i \in DOMAIN line : line[i] \in {" ", "\t"}

RECURSIVE LeadingWS(_)
LeadingWS(line) ==
    IF line # <<>> /\ Head(line) \in {" ", "\t"}
    THEN <<Head(line)>> \o LeadingWS(Tail(line)) ELSE <<>>

Dedent(text) ==
    LET lines == Split(text, <<"\n">>)
        norm == [i \in DOMAIN lines |->
                    IF IsBlankLine(lines[i]) THEN <<>> ELSE lines[i]]
        indents == {LeadingWS(norm[i]) : i \in {j \in DOMAIN norm : norm[j] # <<>>}}
        Common(n) == \A x \in indents, y \in indents :
                        Len(x) >= n /\ Len(y) >= n /\ SubSeq(x, 1, n) = SubSeq(y, 1, n)
        maxlen == IF indents = {} THEN 0
                  ELSE CHOOSE n \in 0..Len(text) :
                          Common(n) /\ \A m \in 0..Len(text) : Common(m) => m <= n
    IN  Join([i \in DOMAIN norm |->
                 IF norm[i] = <<>> THEN <<>>
                 ELSE Slice(norm[i], maxlen, Len(norm[i]))], <<"\n">>)

(***************************************************************************)
(* main(): classification of the page's templates, lines 135-136, 155-186  *)
(***************************************************************************)
templates_licensing_ready ==
    {<<"C","o","p","y","r","i","g","h","t"," ","g","a","m","e">>, <<"C","C","0">>, <<"C","C","-","B","Y","-","S","A","-","3",".","0">>, <<"C","o","p","y","r","i","g","h","t"," ","m","i","s","s","i","n","g">>, <<"D","e","l","e","t","e">>, <<"C","C","-","B","Y","-","N","C","-","S","A">>}

templates_description_ready ==
    {<<"M","a","p"," ","s","c","r","e","e","n","s","h","o","t">>, <<"S","c","r","e","e","n","s","h","o","t">>, <<"F","i","l","e"," ","i","n","f","o","r","m","a","t","i","o","n">>, <<"D","a","t","a","m","i","n","e","d"," ","t","e","x","t","u","r","e">>}

AnyTemplate(names, sub) == \E i \in DOMAIN names : Contains(names[i], sub)

LicensingReady(names) ==
    \/ \E r \in templates_licensing_ready : AnyTemplate(names, r)
    \/ AnyTemplate(names, <<"D","e","l","e","t","e">>)

\* a mutant of DescriptionReady: 'Screenshot' is missing from the list
DescriptionReadyNoScreenshot(names) ==
    \/ \E r \in templates_description_ready \ {<<"S","c","r","e","e","n","s","h","o","t">>} : AnyTemplate(names, r)
    \/ AnyTemplate(names, <<"E","g","g"," ","t","e","x","t","u","r","e">>)
    \/ AnyTemplate(names, <<"D","e","l","e","t","e">>)

DescriptionReady(names) ==
    \/ \E r \in templates_description_ready : AnyTemplate(names, r)
    \/ AnyTemplate(names, <<"E","g","g"," ","t","e","x","t","u","r","e">>)
    \/ AnyTemplate(names, <<"D","e","l","e","t","e">>)

EggTextureReady(names) == AnyTemplate(names, <<"E","g","g"," ","t","e","x","t","u","r","e">>)

CopyrightGameReady(names) == AnyTemplate(names, <<"C","o","p","y","r","i","g","h","t"," ","g","a","m","e">>)

Verb(names) ==
    IF AnyTemplate(names, <<"L","i","c","e","n","s","e","/","D","E","V","E","L","O","P","E","R"," ","N","A","M","E"," ","H","E","R","E">>) THEN "use" ELSE "add"

(***************************************************************************)
(* main(): sections, lines 196-208                                         *)
(***************************************************************************)
\* the body of the last section whose title matches, None when none does
RECURSIVE LastSection(_, _)
LastSection(body, subs) ==
    IF body = <<>> THEN None
    ELSE LET b == body[Len(body)]
         IN  IF \E sub \in subs : Contains(b.title, sub) THEN b.content
             ELSE LastSection(SubSeq(body, 1, Len(body) - 1), subs)

SectionSummary(body) == LastSection(body, {<<"u","m","m","a","r","y">>, <<"e","s","c","r","i","p","t","i","o","n">>})

SectionLicensing(body) == LastSection(body, {<<"i","c","e","n","s">>})

(***************************************************************************)
(* main(): the operator's choice, lines 253-265                            *)
(***************************************************************************)
\* a mutant of ChoiceDescription: 'n' keeps the derived caption, as 'y' does
ChoiceDescriptionKeepOnNo(c, summ, desc) ==
    IF c \in {"y", "r", "n"} THEN Strip(summ)
    ELSE IF c = "m" THEN <<"{","{","M","a","p"," ","s","c","r","e","e","n","s","h","o","t","|">> \o summ \o <<"}","}">>
    ELSE IF c = "s" THEN <<"{","{","S","c","r","e","e","n","s","h","o","t","|">> \o summ \o <<"}","}">>
    ELSE desc

ChoiceDescription(c, summ, desc) ==
    IF c \in {"y", "r"} THEN Strip(summ)
    ELSE IF c = "m" THEN <<"{","{","M","a","p"," ","s","c","r","e","e","n","s","h","o","t","|">> \o summ \o <<"}","}">>
    ELSE IF c = "s" THEN <<"{","{","S","c","r","e","e","n","s","h","o","t","|">> \o summ \o <<"}","}">>
    ELSE desc

(***************************************************************************)
(* main(): skip tests, lines 267-277                                       *)
(***************************************************************************)
\* a mutant of SkipReady: the test of line 275 is lost
SkipReadyNoGameFile(egg, dready, lready, cready, eready) ==
    \/ dready /\ (~cready /\ lready)
    \/ egg /\ eready /\ cready

SkipReady(egg, dready, lready, cready, eready) ==
    \/ dready /\ (~cready /\ lready)
    \/ IF egg THEN eready /\ cready ELSE dready /\ lready

(***************************************************************************)
(* main(): the composed text and edit summary, lines 287-319               *)
(***************************************************************************)
Indent == <<" "," "," "," "," "," "," "," "," "," "," "," "," "," "," "," ">>

NewText(desc, hdr, ftr, from_header) ==
    LET body == Strip(Dedent(
                    <<"\n">> \o Indent \o <<"=","="," ","S","u","m","m","a","r","y"," ","=","=","\n">>
                         \o Indent \o Strip(desc) \o <<"\n">>
                         \o <<"\n">>
                         \o Indent \o <<"=","="," ","L","i","c","e","n","s","i","n","g"," ","=","=","\n">>
                         \o Indent \o <<"{","{","C","o","p","y","r","i","g","h","t"," ","g","a","m","e","}","}","\n">>
                         \o Indent))
        h == Strip(hdr)
        f == Strip(ftr)
        withHeader == IF ~from_header /\ Len(h) > 0 THEN h \o <<"\n","\n">> \o body ELSE body
    IN  IF Len(f) > 0 THEN withHeader \o <<"\n","\n">> \o f ELSE withHeader

template_edit_summary_element(old, new, template) ==
    IF Contains(new, <<"{","{">> \o template) /\ ~Contains(old, <<"{","{">> \o template)
    THEN <<<<"a","d","d"," ","[","[","T","e","m","p","l","a","t","e",":">> \o template \o <<"]","]">>>>
    ELSE <<>>

BOT_TASK_AD == <<"(","[","[","U","s","e","r",":","A","n","d","r","y","b","a","k","B","o","t","/","I","m","a","g","e"," ","p","a","g","e"," ","c","l","e","a","n","u","p","]","]",")">>

EditSummary(old, new, cready, vb) ==
    Join(template_edit_summary_element(old, new, <<"M","a","p"," ","s","c","r","e","e","n","s","h","o","t">>)
            \o template_edit_summary_element(old, new, <<"S","c","r","e","e","n","s","h","o","t">>)
            \o template_edit_summary_element(old, new, <<"E","g","g"," ","t","e","x","t","u","r","e">>)
            \o template_edit_summary_element(old, new, <<"F","i","l","e"," ","i","n","f","o","r","m","a","t","i","o","n">>)
            \o (IF ~cready
                THEN <<(IF vb = "use" THEN <<"u","s","e">> ELSE <<"a","d","d">>) \o <<" ","[","[","T","e","m","p","l","a","t","e",":","C","o","p","y","r","i","g","h","t"," ","g","a","m","e","]","]">>>>
                ELSE <<>>)
            \o <<BOT_TASK_AD>>,
         <<";"," ">>)

(***************************************************************************)
(* State.                                                                  *)
(***************************************************************************)
VARIABLES
    \* the wiki: the text of every file page, and the page generator
    wiki, gen,
    \* the process: which start of the script this is, where main() stands,
    \* the exception that ended it, and whether the name `config' that
    \* put_text reads is bound in the namespace the script runs in (the
    \* module itself never imports it)
    run, pc, failure, config_bound,
    \* locals of main()
    looked_at, page_title, page_is_egg_texture, ts, verb,
    description_ready, egg_texture_ready, licensing_ready, copyright_game_ready,
    old_text, header, footer, summary, licensing, description,
    got_summary_from_header, new_text, edit_summary, choice, error_count,
    \* observations of the page being processed: calls of page.save and of
    \* pywikibot.sleep, whether choice was assigned for this page, whether
    \* it was read without that, and what the operator answered
    save_calls, sleeps, choice_fresh, stale_read,
    keep_answer, describe_answer, accept_answer,
    \* observations of the run: the page whose save ran out of retries
    exhausted_on,
    \* observations across runs: the pages whose text the bot saved, with the
    \* answers that led to the save; and the same as of the start of this run
    bot_wrote, saved_answers, prev_wrote, prev_answers,
    \* the caption steps applied to one string (SpecCaption)
    cap_pc, cap_src, cap_cur

capvars == <<cap_pc, cap_src, cap_cur>>

wikivars == <<wiki, gen>>
procvars == <<run, pc, failure, config_bound>>
flagvars == <<page_is_egg_texture, ts, verb, description_ready,
              egg_texture_ready, licensing_ready, copyright_game_ready>>
textvars == <<old_text, header, footer, summary, licensing,
              got_summary_from_header>>
outvars == <<new_text, edit_summary>>
obsvars == <<save_calls, sleeps, choice_fresh, stale_read,
             keep_answer, describe_answer, accept_answer>>
runobs == <<exhausted_on, bot_wrote, saved_answers, prev_wrote, prev_answers>>

mainvars == <<wikivars, procvars, looked_at, page_title, flagvars, textvars,
              description, outvars, choice, error_count, obsvars, runobs>>

vars == <<mainvars, capvars>>

(***************************************************************************)
(* The pages the model starts from.                                        *)
(***************************************************************************)
PlainTitle == <<"F","i","l","e",":","T","r","e","e",".","p","n","g">>
EggTitle == <<"F","i","l","e",":","E","g","g","-","b","r","i","c","k",".","p","n","g">>
Titles == {PlainTitle, EggTitle}

PlainTexts ==
    { <<"B","r","i","c","k"," ","E","g","g","2">>,
      <<"=","="," ","S","u","m","m","a","r","y"," ","=","=","\n","L","o","c","a","t","i","o","n"," ","o","f"," ","T","r","e","e",".","\n","\n","=","="," ","L","i","c","e","n","s","i","n","g"," ","=","=","\n","{","{","L","i","c","e","n","s","e","/","D","E","V","E","L","O","P","E","R"," ","N","A","M","E"," ","H","E","R","E","}","}","\n","\n","[","[","C","a","t","e","g","o","r","y",":","M","a","p","s","]","]">>,
      <<"=","="," ","F","o","o"," ","=","=","\n","{","{","S","c","r","e","e","n","s","h","o","t","|","x","}","}">>,
      <<"{","{","S","c","r","e","e","n","s","h","o","t","|","T","r","e","e","}","}","\n","{","{","C","C","0","}","}">>,
      <<>>,
      <<"=","="," ","D","e","s","c","r","i","p","t","i","o","n"," ","=","=","\n","O","l","d","\n","t","r","e","e">>,
      <<"#","R","E","D","I","R","E","C","T"," ","[","[","F","i","l","e",":","B",".","p","n","g","]","]">> }

EggTexts ==
    { <<>>,
      <<"=","="," ","S","u","m","m","a","r","y"," ","=","=","\n","M","a","p"," ","o","f"," ","w","e","l","l">>,
      <<"{","{","S","c","r","e","e","n","s","h","o","t","|","E","g","g","}","}","\n","{","{","C","o","p","y","r","i","g","h","t"," ","g","a","m","e","}","}">>,
      <<"=","="," ","S","u","m","m","a","r","y"," ","=","=","\n","{","{","E","g","g"," ","t","e","x","t","u","r","e","}","}","\n","\n","=","="," ","L","i","c","e","n","s","i","n","g"," ","=","=","\n","{","{","C","o","p","y","r","i","g","h","t"," ","g","a","m","e","}","}">>,
      <<"=","="," ","S","u","m","m","a","r","y"," ","=","=","\n","B","r","i","c","k"," ","E","g","g","2">> }

\* what AllpagesPageGenerator yields; a repeated title is the end sentinel
Generators ==
    { <<PlainTitle, EggTitle>>, <<EggTitle, PlainTitle>>, <<PlainTitle, PlainTitle>> }

\* what the operator may type at 'Please describe the file:'
DescribeInputs == { <<"s","k","i","p">>, <<"s">>, <<"O","l","d"," ","t","r","e","e">> }

KeepChoices == {"y", "n", "s", "m", "r", "b"}
AcceptChoices == {"y", "n", "b"}

\* page.save succeeds or raises one of the exceptions put_text handles
SaveOutcomes ==
    {"saved", "EditConflictError", "ServerError", "SpamblacklistError",
     "LockedPageError", "PageSaveRelatedError"}

NoAnswers == [keep |-> "-", describe |-> None, accept |-> "-"]

(***************************************************************************)
(* Initial states.                                                         *)
(***************************************************************************)
\* the values the locals and observations of one page start an iteration with
PageLocalsInit ==
    /\ page_is_egg_texture = FALSE
    /\ ts = <<>>
    /\ verb = "add"
    /\ description_ready = FALSE
    /\ egg_texture_ready = FALSE
    /\ licensing_ready = FALSE
    /\ copyright_game_ready = FALSE
    /\ old_text = None
    /\ header = None
    /\ footer = None
    /\ summary = None
    /\ licensing = None
    /\ description = None
    /\ got_summary_from_header = FALSE
    /\ new_text = None
    /\ edit_summary = None
    /\ error_count = 0
    /\ save_calls = 0
    /\ sleeps = 0
    /\ choice_fresh = FALSE
    /\ stale_read = FALSE
    /\ keep_answer = "-"
    /\ describe_answer = None
    /\ accept_answer = "-"

CapOff == cap_pc = "off" /\ cap_src = <<>> /\ cap_cur = <<>>

MainInit ==
    /\ wiki \in {w \in [Titles -> PlainTexts \cup EggTexts] :
                    w[PlainTitle] \in PlainTexts /\ w[EggTitle] \in EggTexts}
    /\ gen \in Generators
    /\ run = 1
    /\ pc = "loop"
    /\ failure = "none"
    /\ config_bound \in BOOLEAN
    /\ looked_at = {}
    /\ page_title = None
    /\ choice = "unbound"
    /\ PageLocalsInit
    /\ exhausted_on = None
    /\ bot_wrote = {}
    /\ saved_answers = [t \in Titles |-> NoAnswers]
    /\ prev_wrote = {}
    /\ prev_answers = [t \in Titles |-> NoAnswers]

Init == MainInit /\ CapOff

(***************************************************************************)
(* main(): one action per stretch of code between two blocking calls.      *)
(***************************************************************************)
\* an uncaught exception ends the run
Crash(exc) ==
    /\ pc' = "crashed"
    /\ failure' = exc
    /\ UNCHANGED <<run, config_bound>>

Goto(label) ==
    /\ pc' = label
    /\ UNCHANGED <<run, failure, config_bound>>

\* the same values, as an iteration assigns them
ResetPageLocals ==
    /\ page_is_egg_texture' = FALSE
    /\ ts' = <<>>
    /\ verb' = "add"
    /\ description_ready' = FALSE
    /\ egg_texture_ready' = FALSE
    /\ licensing_ready' = FALSE
    /\ copyright_game_ready' = FALSE
    /\ old_text' = None
    /\ header' = None
    /\ footer' = None
    /\ summary' = None
    /\ licensing' = None
    /\ description' = None
    /\ got_summary_from_header' = FALSE
    /\ new_text' = None
    /\ edit_summary' = None
    /\ error_count' = 0
    /\ save_calls' = 0
    /\ sleeps' = 0
    /\ choice_fresh' = FALSE
    /\ stale_read' = FALSE
    /\ keep_answer' = "-"
    /\ describe_answer' = None
    /\ accept_answer' = "-"

\* lines 141-146: the next page of the generator, or the end of the loop.
\* Every local but choice is assigned anew before it is read (lines 148-211),
\* so the model resets them here.
NextPage ==
    /\ pc = "loop"
    /\ IF gen = <<>> \/ Head(gen) \in looked_at
       THEN /\ Goto("done")
            /\ UNCHANGED <<gen, looked_at, page_title, flagvars, textvars,
                           description, outvars, error_count, obsvars>>
       ELSE /\ Goto("try")
            /\ gen' = Tail(gen)
            /\ looked_at' = looked_at \cup {Head(gen)}
            /\ page_title' = Head(gen)
            /\ ResetPageLocals
    /\ UNCHANGED <<wiki, choice, runobs, capvars>>

\* lines 148-186: the page's templates and what they make ready
ReadTemplates ==
    /\ pc = "try"
    /\ Goto("get")
    /\ page_is_egg_texture' = StartsWith(page_title, <<"F","i","l","e",":","E","g","g","-">>)
    /\ ts' = TemplateTitles(wiki[page_title])
    /\ verb' = Verb(ts')
    /\ description_ready' = DescriptionReady(ts')
    /\ egg_texture_ready' = EggTextureReady(ts')
    /\ licensing_ready' = LicensingReady(ts')
    /\ copyright_game_ready' = CopyrightGameReady(ts')
    /\ UNCHANGED <<wikivars, looked_at, page_title, textvars, description,
                   outvars, choice, error_count, obsvars, runobs, capvars>>

\* lines 192-208, given the sections of the text
SectionsToLocals(sec) ==
    /\ header' = sec.header
    /\ footer' = sec.footer
    /\ licensing' = SectionLicensing(sec.body)
    /\ summary' = IF SectionSummary(sec.body) # None THEN SectionSummary(sec.body)
                  ELSE IF page_is_egg_texture THEN <<"{","{","E","g","g"," ","t","e","x","t","u","r","e","}","}">>
                  ELSE IF Len(sec.header) > 0 THEN sec.header
                  ELSE None
    /\ got_summary_from_header' =
          (SectionSummary(sec.body) = None /\ ~page_is_egg_texture
             /\ Len(sec.header) > 0)

\* lines 189-208: the text, its sections, and where the summary comes from
GetPage ==
    /\ pc = "get"
    /\ IF IsRedirectPage(wiki[page_title])
       THEN \* page.get() raises IsRedirectPageError: lines 357-359
            /\ Goto("loop")
            /\ UNCHANGED textvars
       ELSE /\ Goto("derive")
            /\ old_text' = wiki[page_title]
            /\ SectionsToLocals(ExtractSections(wiki[page_title]))
    /\ UNCHANGED <<wikivars, looked_at, page_title, flagvars, description,
                   outvars, choice, error_count, obsvars, runobs, capvars>>

\* lines 218-226
TrimCaption(s) == TruncateIn(TruncateBrace(Strip(s)))

\* lines 217-247 and, on an egg page, 253-265, given the trimmed caption
DeriveFrom(trimmed) ==
    IF PeriodIndexError(trimmed)
    THEN /\ Crash("IndexError")
         /\ summary' = trimmed
         /\ UNCHANGED <<description, description_ready, choice, choice_fresh,
                        stale_read>>
    ELSE /\ summary' = RewriteCaption(StripPeriod(trimmed), page_is_egg_texture)
         /\ IF ~page_is_egg_texture
            THEN /\ Goto("keep_prompt")
                 /\ UNCHANGED <<description, description_ready, choice,
                                choice_fresh, stale_read>>
            ELSE \* no prompt on an egg page: line 253 reads choice
                 /\ choice_fresh' =
                       RewriteSetsChoice(StripPeriod(trimmed), page_is_egg_texture)
                 /\ stale_read' = ~choice_fresh'
                 /\ choice' = IF choice_fresh' THEN "y" ELSE choice
                 /\ IF choice' = "unbound"
                    THEN /\ Crash("UnboundLocalError")
                         /\ UNCHANGED <<description, description_ready>>
                    ELSE /\ Goto("check")
                         /\ description' =
                               ChoiceDescription(choice', summary', description)
                         /\ description_ready' =
                               (description_ready \/ choice' = "r")

\* lines 214-265 up to the 'Keep this description?' prompt: the derived
\* caption and, on an egg page, the choice
DeriveCaption ==
    /\ pc = "derive"
    /\ IF summary # None /\ Len(Strip(summary)) > 0 /\ ~description_ready
       THEN DeriveFrom(TrimCaption(summary))
       ELSE /\ Goto("check")
            /\ description' = IF description_ready /\ summary # None
                              THEN Strip(summary) ELSE description
            /\ UNCHANGED <<summary, description_ready, choice, choice_fresh,
                           stale_read>>
    /\ UNCHANGED <<wikivars, looked_at, page_title, page_is_egg_texture, ts,
                   verb, egg_texture_ready, licensing_ready,
                   copyright_game_ready, old_text, header, footer, licensing,
                   got_summary_from_header, outvars, error_count, save_calls,
                   sleeps, keep_answer, describe_answer, accept_answer, runobs,
                   capvars>>

\* lines 249-265: the operator answers 'Keep this description?'
KeepPrompt(c) ==
    /\ pc = "keep_prompt"
    /\ Goto("check")
    /\ choice' = c
    /\ choice_fresh' = TRUE
    /\ keep_answer' = c
    /\ description' = ChoiceDescription(c, summary, description)
    /\ description_ready' = (description_ready \/ c = "r")
    /\ UNCHANGED <<wikivars, looked_at, page_title, page_is_egg_texture, ts,
                   verb, egg_texture_ready, licensing_ready,
                   copyright_game_ready, textvars, outvars, error_count,
                   save_calls, sleeps, stale_read, describe_answer,
                   accept_answer, runobs, capvars>>

\* input_choice raises QuitKeyboardInterrupt on 'q': line 363-364, sys.exit
OperatorQuits ==
    /\ pc \in {"keep_prompt", "accept_prompt"}
    /\ pc' = "quit"
    /\ UNCHANGED <<run, failure, config_bound>>
    /\ UNCHANGED <<wikivars, looked_at, page_title, flagvars, textvars,
                   description, outvars, choice, error_count, obsvars, runobs,
                   capvars>>

\* lines 267-279: skip a ready page, else ask for a description if none
SkipCheck ==
    /\ pc = "check"
    /\ IF SkipReady(page_is_egg_texture, description_ready, licensing_ready,
                    copyright_game_ready, egg_texture_ready)
       THEN Goto("loop")
       ELSE IF ~description_ready /\ description = None
       THEN Goto("describe_prompt")
       ELSE Goto("compose")
    /\ UNCHANGED <<wikivars, looked_at, page_title, flagvars, textvars,
                   description, outvars, choice, error_count, obsvars, runobs,
                   capvars>>

\* lines 280-283: the operator types a description, or skips the page
Describe(d) ==
    /\ pc = "describe_prompt"
    /\ description' = d
    /\ describe_answer' = d
    /\ IF d \in {<<"s">>, <<"s","k","i","p">>} THEN Goto("loop") ELSE Goto("compose")
    /\ UNCHANGED <<wikivars, looked_at, page_title, flagvars, textvars,
                   outvars, choice, error_count, save_calls, sleeps,
                   choice_fresh, stale_read, keep_answer, accept_answer,
                   runobs, capvars>>

\* lines 284-324: compose the text and the edit summary
Compose ==
    /\ pc = "compose"
    /\ IF description = None
       THEN \* description.strip() on None: AttributeError
            /\ Crash("AttributeError")
            /\ UNCHANGED <<header, footer, outvars, choice, choice_fresh>>
       ELSE LET nt == NewText(description, header, footer,
                              got_summary_from_header)
            IN  /\ new_text' = nt
                /\ header' = Strip(header)
                /\ footer' = Strip(footer)
                /\ IF old_text = nt
                   THEN /\ Goto("loop")
                        /\ UNCHANGED <<edit_summary, choice, choice_fresh>>
                   ELSE /\ edit_summary' = EditSummary(old_text, nt,
                                               copyright_game_ready, verb)
                        /\ IF page_is_egg_texture
                           THEN /\ Goto("dispatch")
                                /\ choice' = "y"
                                /\ choice_fresh' = TRUE
                           ELSE /\ Goto("accept_prompt")
                                /\ UNCHANGED <<choice, choice_fresh>>
    /\ UNCHANGED <<wikivars, looked_at, page_title, flagvars, old_text,
                   summary, licensing, got_summary_from_header, description,
                   error_count, save_calls, sleeps, stale_read, keep_answer,
                   describe_answer, accept_answer, runobs, capvars>>

\* lines 326-328: the operator answers 'Do you want to accept these changes?'
AcceptPrompt(c) ==
    /\ pc = "accept_prompt"
    /\ Goto("dispatch")
    /\ choice' = c
    /\ choice_fresh' = TRUE
    /\ accept_answer' = c
    /\ UNCHANGED <<wikivars, looked_at, page_title, flagvars, textvars,
                   description, outvars, error_count, save_calls, sleeps,
                   stale_read, keep_answer, describe_answer, runobs, capvars>>

\* lines 335-351: act on the choice
Dispatch ==
    /\ pc = "dispatch"
    /\ IF choice = "y" THEN Goto("save") /\ error_count' = 0
       ELSE IF choice = "q" THEN Goto("done") /\ UNCHANGED error_count
       ELSE Goto("loop") /\ UNCHANGED error_count
    /\ UNCHANGED <<wikivars, looked_at, page_title, flagvars, textvars,
                   description, outvars, choice, obsvars, runobs, capvars>>

\* put_text, lines 61-91, as called from the loop of lines 342-349 and
\* under the handlers of lines 354-364
PutText(outcome) ==
    /\ pc = "save"
    /\ save_calls' = save_calls + 1
    /\ IF outcome = "saved"
       THEN \* return True
            /\ Goto("loop")
            /\ wiki' = [wiki EXCEPT ![page_title] = new_text]
            /\ bot_wrote' = bot_wrote \cup {page_title}
            /\ saved_answers' = [saved_answers EXCEPT ![page_title] =
                    [keep |-> keep_answer, describe |-> describe_answer,
                     accept |-> accept_answer]]
            /\ UNCHANGED <<error_count, sleeps, exhausted_on>>
       ELSE IF outcome # "ServerError"
       THEN \* return False
            /\ Goto("loop")
            /\ UNCHANGED <<wiki, bot_wrote, saved_answers, error_count,
                           sleeps, exhausted_on>>
       ELSE IF ~config_bound
       THEN \* config.max_retries: NameError, caught by no handler
            /\ Crash("NameError")
            /\ UNCHANGED <<wiki, bot_wrote, saved_answers, error_count,
                           sleeps, exhausted_on>>
       ELSE IF error_count <= MaxRetries
       THEN \* sleep, return None; the loop counts and calls again
            /\ Goto("save")
            /\ sleeps' = sleeps + 1
            /\ error_count' = error_count + 1
            /\ UNCHANGED <<wiki, bot_wrote, saved_answers, exhausted_on>>
       ELSE \* raise ServerError: an exceptions.Error, lines 360-362 continue
            /\ Goto("loop")
            /\ exhausted_on' = page_title
            /\ UNCHANGED <<wiki, bot_wrote, saved_answers, error_count, sleeps>>
    /\ UNCHANGED <<gen, looked_at, page_title, flagvars, textvars,
                   description, outvars, choice, choice_fresh, stale_read,
                   keep_answer, describe_answer, accept_answer, prev_wrote,
                   prev_answers, capvars>>

(***************************************************************************)
(* The script started again on the wiki the last run left behind.          *)
(***************************************************************************)
\* main() is entered anew, line 370: every local is fresh, the wiki is kept
StartRun ==
    /\ pc \in {"done", "crashed", "quit"}
    /\ run < MaxRuns
    /\ run' = run + 1
    /\ pc' = "loop"
    /\ failure' = "none"
    /\ gen' \in Generators
    /\ looked_at' = {}
    /\ page_title' = None
    /\ choice' = "unbound"
    /\ ResetPageLocals
    /\ exhausted_on' = None
    /\ prev_wrote' = bot_wrote
    /\ prev_answers' = saved_answers
    /\ UNCHANGED <<wiki, config_bound, bot_wrote, saved_answers, capvars>>

Next ==
    \/ NextPage
    \/ ReadTemplates
    \/ GetPage
    \/ DeriveCaption
    \/ \E c \in KeepChoices : KeepPrompt(c)
    \/ OperatorQuits
    \/ SkipCheck
    \/ \E d \in DescribeInputs : Describe(d)
    \/ Compose
    \/ \E c \in AcceptChoices : AcceptPrompt(c)
    \/ Dispatch
    \/ \E o \in SaveOutcomes : PutText(o)
    \/ StartRun

Spec == Init /\ [][Next]_vars

(***************************************************************************)
(* The caption steps applied to every short string.                        *)
(***************************************************************************)
CapAlphabet == {" ", "\n", "i", "n", "{", "."}

\* every string over CapAlphabet of length 1..MaxLen
CapStrings == UNION {[1..n -> CapAlphabet] : n \in 1..MaxLen}

MainIdle ==
    /\ wiki = [t \in Titles |-> <<>>]
    /\ gen = <<>>
    /\ run = 1
    /\ pc = "done"
    /\ failure = "none"
    /\ config_bound = TRUE
    /\ looked_at = {}
    /\ page_title = None
    /\ choice = "unbound"
    /\ PageLocalsInit
    /\ exhausted_on = None
    /\ bot_wrote = {}
    /\ saved_answers = [t \in Titles |-> NoAnswers]
    /\ prev_wrote = {}
    /\ prev_answers = [t \in Titles |-> NoAnswers]

\* line 217: derivation runs only when len(summary.strip()) > 0
CapInit ==
    /\ cap_src \in {s \in CapStrings : Strip(s) # <<>>}
    /\ cap_cur = cap_src
    /\ cap_pc = "strip"
    /\ MainIdle

\* line 218
CapStrip ==
    /\ cap_pc = "strip"
    /\ cap_cur' = Strip(cap_cur)
    /\ cap_pc' = "brace"
    /\ UNCHANGED <<cap_src, mainvars>>

\* lines 220-222
CapBrace ==
    /\ cap_pc = "brace"
    /\ cap_cur' = TruncateBrace(cap_cur)
    /\ cap_pc' = "in"
    /\ UNCHANGED <<cap_src, mainvars>>

\* lines 223-226
CapIn ==
    /\ cap_pc = "in"
    /\ cap_cur' = TruncateIn(cap_cur)
    /\ cap_pc' = "period"
    /\ UNCHANGED <<cap_src, mainvars>>

\* lines 227-228
CapPeriod ==
    /\ cap_pc = "period"
    /\ IF PeriodIndexError(cap_cur)
       THEN cap_pc' = "IndexError" /\ UNCHANGED cap_cur
       ELSE cap_pc' = "rewrite" /\ cap_cur' = StripPeriod(cap_cur)
    /\ UNCHANGED <<cap_src, mainvars>>

\* lines 231-245
CapRewrite ==
    /\ cap_pc = "rewrite"
    /\ cap_cur' = RewriteCaption(cap_cur, FALSE)
    /\ cap_pc' = "done"
    /\ UNCHANGED <<cap_src, mainvars>>

CapNext == CapStrip \/ CapBrace \/ CapIn \/ CapPeriod \/ CapRewrite

SpecCaption == CapInit /\ [][CapNext]_vars

(***************************************************************************)
(* Properties.                                                             *)
(***************************************************************************)
\* the template names as the specification lists them
SpecLicensingTemplates ==
    {<<"C","o","p","y","r","i","g","h","t"," ","g","a","m","e">>, <<"C","C","0">>, <<"C","C","-","B","Y","-","S","A","-","3",".","0">>, <<"C","o","p","y","r","i","g","h","t"," ","m","i","s","s","i","n","g">>, <<"D","e","l","e","t","e">>, <<"C","C","-","B","Y","-","N","C","-","S","A">>}

SpecDescriptionTemplates ==
    {<<"M","a","p"," ","s","c","r","e","e","n","s","h","o","t">>, <<"S","c","r","e","e","n","s","h","o","t">>, <<"F","i","l","e"," ","i","n","f","o","r","m","a","t","i","o","n">>, <<"D","a","t","a","m","i","n","e","d"," ","t","e","x","t","u","r","e">>, <<"E","g","g"," ","t","e","x","t","u","r","e">>}

CarriesLicensing == \E r \in SpecLicensingTemplates : AnyTemplate(ts, r)

CarriesDescription == \E r \in SpecDescriptionTemplates : AnyTemplate(ts, r)

OnEggPage == page_title # None /\ StartsWith(page_title, <<"F","i","l","e",":","E","g","g","-">>)

\* an egg page under {{Copyright game}} that lacks {{Egg texture}}
EggGameFileWithoutEggTexture ==
    OnEggPage /\ AnyTemplate(ts, <<"C","o","p","y","r","i","g","h","t"," ","g","a","m","e">>) /\ ~AnyTemplate(ts, <<"E","g","g"," ","t","e","x","t","u","r","e">>)

C2_EggCaptionIsEggTexture ==
    (OnEggPage /\ ~DescriptionReady(ts) /\ new_text # None)
        => Strip(description) = <<"{","{","E","g","g"," ","t","e","x","t","u","r","e","}","}">>

\* C3, as claimed: after 'No' to 'Keep this description?' the page is not
\* saved in this run.
C3_NoMeansNoSave ==
    keep_answer = "n" => save_calls = 0

\* C3, amended: after 'No' to 'Keep this description?' the page is saved only
\* if the operator then typed a description other than 's' and 'skip' at
\* 'Please describe the file:' and answered 'Yes' to 'Do you want to accept
\* these changes?'; the caption saved is the typed one, not the derived one.
C3_NoMeansSaveOnlyTyped ==
    (keep_answer = "n" /\ save_calls > 0)
        => /\ describe_answer \notin {None, <<"s">>, <<"s","k","i","p">>}
           /\ accept_answer = "y"
           /\ description = describe_answer

\* 'No', then a typed description, then a save
C3_Witness ==
    /\ keep_answer = "n"
    /\ describe_answer = <<"O","l","d"," ","t","r","e","e">>
    /\ save_calls > 0

C5_AtMostMaxRetries ==
    /\ save_calls <= MaxRetries + 1
    /\ sleeps <= MaxRetries
    /\ failure # "NameError"

\* what the operator answered for the page at hand
AnswersNow ==
    [keep |-> keep_answer, describe |-> describe_answer, accept |-> accept_answer]

SavedPageIsReady ==
    /\ AnyTemplate(ts, <<"C","o","p","y","r","i","g","h","t"," ","g","a","m","e">>)
    /\ IF OnEggPage THEN AnyTemplate(ts, <<"E","g","g"," ","t","e","x","t","u","r","e">>) ELSE CarriesDescription

C7_RewriteNeverFails ==
    /\ failure \notin {"UnboundLocalError", "AttributeError", "IndexError"}
    /\ pc = "compose" => description # None

\* C8, as claimed: the choice acted on for a page was set while that page
\* was processed, never before it and never not at all.
C8_ChoiceSetForThisPage ==
    ~stale_read

\* C9, as claimed: a caption source that contains '{' is, after the
\* truncation at '{', the part before the first '{', trimmed; and no '{' is
\* left in the rewritten caption.
C9_TruncatedAtFirstBrace ==
    Contains(Strip(cap_src), <<"{">>) =>
        /\ cap_pc = "in" =>
              Strip(cap_cur) = Strip(Slice(Strip(cap_src), 0, Find(Strip(cap_src), <<"{">>)))
        /\ cap_pc = "done" => ~Contains(cap_cur, <<"{">>)

\* C10: after both truncations and the trim the caption is not empty, so
\* summary[-1] never raises IndexError.
C10_TrimmedCaptionNotEmpty ==
    /\ cap_pc = "period" => Len(cap_cur) > 0
    /\ cap_pc # "IndexError"

\* both truncations cut the string
C10_Witness ==
    /\ cap_pc = "period"
    /\ Contains(cap_src, <<"{">>)
    /\ Contains(TruncateBrace(Strip(cap_src)), <<" ","i","n"," ">>)
    /\ Len(cap_cur) < Len(TruncateBrace(Strip(cap_src)))

=============================================================================
